---- MODULE Spec2Model ----
(***************************************************************************)
(* User repository examples of load28/effect: a key-value store service    *)
(* over the browser's localStorage, three UserRepository implementations   *)
(* (a stub, an in-memory array, a localStorage-backed one) in two          *)
(* generations of the example, and the demo workflow that queries them.    *)
(*                                                                         *)
(* JavaScript values are tagged records of one shape, so that any two of   *)
(* them can be compared.  A stored string is a sequence of JSON tokens;    *)
(* JSON.stringify and JSON.parse are computed over tokens.                 *)
(***************************************************************************)
EXTENDS Integers, Sequences, FiniteSets, TLC

VARIABLES repo, store, users, last, hist, held

vars == <<repo, store, users, last, hist, held>>

\* Largest user id the calls are drawn from.
MaxId == 3

Ids == 1..MaxId

\* Names the calls of update are drawn from.
UpdateNames == {"Changed", "User 1"}

\* The key every repository operation reads and writes.
UsersKey == "users"

\* The keys of the key-value store the calls are drawn from.
Keys == {"users", "other"}

(***************************************************************************)
(* JavaScript values.  t is the type tag; n, s, a carry a number, a string *)
(* or an array's indexed elements; x carries an array's own property "-1"  *)
(* (empty when the array has none).  An object {id, name} has tag "user".  *)
(***************************************************************************)
JsVal(t, n, s, a, x) == [t |-> t, n |-> n, s |-> s, a |-> a, x |-> x]

Undefined == JsVal("undefined", 0, "", <<>>, <<>>)

JNull == JsVal("null", 0, "", <<>>, <<>>)

JTrue == JsVal("true", 0, "", <<>>, <<>>)

JFalse == JsVal("false", 0, "", <<>>, <<>>)

JNum(n) == JsVal("num", n, "", <<>>, <<>>)

JStr(s) == JsVal("str", 0, s, <<>>, <<>>)

\* The object literal {}.
JObj == JsVal("obj", 0, "", <<>>, <<>>)

\* A User object {id, name}.
User(id, name) == JsVal("user", id, name, <<>>, <<>>)

\* An array with the indexed elements a and no other property.
JArr(a) == JsVal("arr", 0, "", a, <<>>)

\* JavaScript's ToBoolean, as used by !item and by users || [].
Truthy(v) ==
  CASE v.t = "undefined" -> FALSE
    [] v.t = "null" -> FALSE
    [] v.t = "false" -> FALSE
    [] v.t = "num" -> v.n # 0
    [] v.t = "str" -> v.s # ""
    [] OTHER -> TRUE

(***************************************************************************)
(* Stored text: a sequence of tokens.  The empty sequence is the empty     *)
(* string.  "word" is a bare word that is no JSON literal.                 *)
(***************************************************************************)
Tok(k, n, s) == [k |-> k, n |-> n, s |-> s]

P(k) == Tok(k, 0, "")

NumTok(n) == Tok("num", n, "")

StrTok(s) == Tok("str", 0, s)

\* JSON.stringify of one User object, keys in insertion order.
StringifyUser(u) ==
  << P("{"), StrTok("id"), P(":"), NumTok(u.n), P(","),
     StrTok("name"), P(":"), StrTok(u.s), P("}") >>

RECURSIVE StringifyElems(_)
StringifyElems(a) ==
  IF Len(a) = 0 THEN <<>>
  ELSE IF Len(a) = 1 THEN StringifyUser(a[1])
  ELSE StringifyUser(a[1]) \o <<P(",")>> \o StringifyElems(Tail(a))

\* JSON.stringify(value), then the string conversion localStorage.setItem
\* applies: JSON.stringify(undefined) is undefined, stored as "undefined".
\* An array's non-index properties are not serialized.
Stringify(v) ==
  CASE v.t = "undefined" -> <<Tok("word", 0, "undefined")>>
    [] v.t = "null" -> <<P("null")>>
    [] v.t = "true" -> <<P("true")>>
    [] v.t = "false" -> <<P("false")>>
    [] v.t = "num" -> <<NumTok(v.n)>>
    [] v.t = "str" -> <<StrTok(v.s)>>
    [] v.t = "obj" -> <<P("{"), P("}")>>
    [] v.t = "user" -> StringifyUser(v)
    [] v.t = "arr" -> <<P("[")>> \o StringifyElems(v.a) \o <<P("]")>>

ParseOk(v) == [ok |-> TRUE, v |-> v]

ParseError == [ok |-> FALSE, v |-> Undefined]

\* Whether the nine tokens from position i are one {"id":n,"name":s} object.
IsUserAt(t, i) ==
  /\ i + 8 <= Len(t)
  /\ t[i] = P("{")
  /\ t[i + 1] = StrTok("id")
  /\ t[i + 2] = P(":")
  /\ t[i + 3].k = "num"
  /\ t[i + 4] = P(",")
  /\ t[i + 5] = StrTok("name")
  /\ t[i + 6] = P(":")
  /\ t[i + 7].k = "str"
  /\ t[i + 8] = P("}")

UserAt(t, i) == User(t[i + 3].n, t[i + 7].s)

\* The elements of an array from position i, up to the closing bracket that
\* must end the text.
RECURSIVE ParseElems(_, _, _)
ParseElems(t, i, acc) ==
  IF ~IsUserAt(t, i) THEN ParseError
  ELSE IF i + 9 > Len(t) THEN ParseError
  ELSE IF t[i + 9] = P("]")
    THEN IF i + 9 = Len(t) THEN ParseOk(JArr(Append(acc, UserAt(t, i))))
         ELSE ParseError
  ELSE IF t[i + 9] = P(",") THEN ParseElems(t, i + 10, Append(acc, UserAt(t, i)))
  ELSE ParseError

\* JSON.parse(text) on the JSON this model stores: scalars, {}, one User
\* object and arrays of User objects.  Anything else is a SyntaxError.
Parse(t) ==
  IF Len(t) = 0 THEN ParseError
  ELSE IF Len(t) = 1 THEN
    CASE t[1].k = "null" -> ParseOk(JNull)
      [] t[1].k = "true" -> ParseOk(JTrue)
      [] t[1].k = "false" -> ParseOk(JFalse)
      [] t[1].k = "num" -> ParseOk(JNum(t[1].n))
      [] t[1].k = "str" -> ParseOk(JStr(t[1].s))
      [] OTHER -> ParseError
  ELSE IF t = <<P("{"), P("}")>> THEN ParseOk(JObj)
  ELSE IF t = <<P("["), P("]")>> THEN ParseOk(JArr(<<>>))
  ELSE IF t[1] = P("[") THEN ParseElems(t, 2, <<>>)
  ELSE IF IsUserAt(t, 1) /\ Len(t) = 9 THEN ParseOk(UserAt(t, 1))
  ELSE ParseError

(***************************************************************************)
(* localStorage: each key is unset (getItem gives null) or holds a string. *)
(***************************************************************************)
Unset == [present |-> FALSE, text |-> <<>>]

Holds(text) == [present |-> TRUE, text |-> text]

\* !item: null and the empty string are both falsy.
NoItem(item) == ~item.present \/ item.text = <<>>

(***************************************************************************)
(* Outcome of running an effect: "ok" with a value, "fail" with a typed    *)
(* error (LocalStorageError), or "die" when a callback threw (a TypeError  *)
(* is a defect, which catchAll does not handle).  ref says the value is    *)
(* the module-level array itself and not a copy.                           *)
(***************************************************************************)
Ok(v) == [status |-> "ok", val |-> v, ref |-> FALSE]

OkRef(v) == [status |-> "ok", val |-> v, ref |-> TRUE]

Fail == [status |-> "fail", val |-> Undefined, ref |-> FALSE]

Die == [status |-> "die", val |-> Undefined, ref |-> FALSE]

\* getItem with the falsy test made on the parsed value instead of the item.
GetItemFalsyValue(st, key) ==
  IF NoItem(st[key]) THEN Ok(Undefined)
  ELSE LET parsed == Parse(st[key].text)
       IN IF ~parsed.ok THEN Fail
          ELSE IF Truthy(parsed.v) THEN Ok(parsed.v) ELSE Ok(Undefined)

\* localStorageServiceLive.getItem of the later example: an unset or empty
\* item is undefined, a parse error becomes a LocalStorageError.
GetItem(st, key) ==
  IF NoItem(st[key]) THEN Ok(Undefined)
  ELSE LET parsed == Parse(st[key].text)
       IN IF parsed.ok THEN Ok(parsed.v) ELSE Fail

\* localStorageServiceLive.getItem of the earlier example: an unset or empty
\* item throws NotFound, which the catch turns into a LocalStorageError.
GetItemStrict(st, key) ==
  IF NoItem(st[key]) THEN Fail
  ELSE LET parsed == Parse(st[key].text)
       IN IF parsed.ok THEN Ok(parsed.v) ELSE Fail

\* localStorageServiceLive.setItem (the same in both examples).  quota says
\* localStorage.setItem throws (QuotaExceededError); the item is then left
\* as it was.
SetItem(st, key, value, quota) ==
  IF quota THEN [store |-> st, res |-> Fail]
  ELSE [store |-> [st EXCEPT ![key] = Holds(Stringify(value))],
        res |-> Ok(Undefined)]

\* localStorageServiceLive.removeItem (the same in both examples).
RemoveItem(st, key) ==
  [store |-> [st EXCEPT ![key] = Unset], res |-> Ok(Undefined)]

(***************************************************************************)
(* Array operations used by the repositories.  Indexes are JavaScript's:   *)
(* the first element has index 0.                                          *)
(***************************************************************************)
\* a.findIndex((u) => u.id === id): the first match, -1 when there is none.
FindIndex(a, id) ==
  IF \E i \in 1..Len(a) : a[i].n = id
  THEN (CHOOSE i \in 1..Len(a) :
          a[i].n = id /\ \A j \in 1..(i - 1) : a[j].n # id) - 1
  ELSE -1

\* find returning the element after the match.
FindNext(a, id) ==
  LET index == FindIndex(a, id)
  IN IF index = -1 THEN Undefined ELSE a[((index + 1) % Len(a)) + 1]

\* a.find((user) => user.id === id): the first match, undefined when none.
Find(a, id) ==
  LET index == FindIndex(a, id)
  IN IF index = -1 THEN Undefined ELSE a[index + 1]

\* arr[index] = value on an array object: an index within the length
\* replaces the element; -1 is no array index, so the assignment creates or
\* overwrites the own property "-1" and leaves length and elements alone.
ArrayAssign(arr, index, value) ==
  IF index >= 0 /\ index < Len(arr.a)
  THEN [arr EXCEPT !.a[index + 1] = value]
  ELSE [arr EXCEPT !.x = <<value>>]

\* The replacement with the second slice taken from index, not index + 1.
SpliceKeepsOld(a, index, user) ==
  SubSeq(a, 1, index) \o <<user>> \o SubSeq(a, index + 1, Len(a))

\* [...users.slice(0, index), { ...user }, ...users.slice(index + 1)]
Splice(a, index, user) ==
  SubSeq(a, 1, index) \o <<user>> \o SubSeq(a, index + 2, Len(a))

\* users || []
OrEmpty(v) == IF Truthy(v) THEN v ELSE JArr(<<>>)

\* The module-level array both in-memory repositories start from.
Seed == JArr(<<User(1, "User 1"), User(2, "User 2")>>)

\* `User ${id}` for the ids of the model.
NameOf(id) == <<"User 1", "User 2", "User 3", "User 4", "User 5">>[id]

(***************************************************************************)
(* Program.ts: userRepositoryLive.                                         *)
(***************************************************************************)
RepoLiveFindById(id) == Ok(User(id, NameOf(id)))

RepoLiveFindAll == Ok(Seed)

(***************************************************************************)
(* Earlier example: userInmemoryRepositoryLive over the constant users     *)
(* array, userLocalStorageRepositoryLive over the strict getItem.          *)
(***************************************************************************)
LiveMemFindById(id) == Ok(Find(Seed.a, id))

LiveMemFindAll == OkRef(Seed)

\* getItem("users") piped through catchAll(() => succeed([])).
LiveLsRead(st) ==
  LET got == GetItemStrict(st, UsersKey)
  IN IF got.status = "ok" THEN got.val ELSE JArr(<<>>)

\* users.find(...) inside the generator: a value without find throws.
LiveLsFindById(st, id) ==
  LET us == LiveLsRead(st)
  IN [res |-> IF us.t = "arr" THEN Ok(Find(us.a, id)) ELSE Die,
      getFailed |-> GetItemStrict(st, UsersKey).status = "fail"]

LiveLsFindAll(st) ==
  [res |-> Ok(LiveLsRead(st)),
   getFailed |-> GetItemStrict(st, UsersKey).status = "fail"]

(***************************************************************************)
(* Later example: userLocalStorageRepository over the lenient getItem,     *)
(* inMemoryUserRepository over the module-level users array.               *)
(***************************************************************************)
\* getItem("users"), map(users || []), catchAll(() => succeed([])).
LsRead(st) ==
  LET got == GetItem(st, UsersKey)
  IN IF got.status = "ok" THEN OrEmpty(got.val) ELSE JArr(<<>>)

\* The last map calls users.find: on a value without find it throws.
LsFindById(st, id) ==
  LET us == LsRead(st)
  IN [res |-> IF us.t = "arr" THEN Ok(Find(us.a, id)) ELSE Die,
      getFailed |-> GetItem(st, UsersKey).status = "fail"]

\* findAll handing the records out in reverse order.
LsFindAllReversed(st) ==
  LET us == LsRead(st)
  IN [res |-> IF us.t = "arr"
              THEN Ok(JArr([i \in 1..Len(us.a) |-> us.a[Len(us.a) + 1 - i]]))
              ELSE Ok(us),
      getFailed |-> GetItem(st, UsersKey).status = "fail"]

LsFindAll(st) ==
  [res |-> Ok(LsRead(st)),
   getFailed |-> GetItem(st, UsersKey).status = "fail"]

\* update appending the new record and keeping the old one.
ReplacedAppends(arr, user) ==
  IF FindIndex(arr.a, user.n) = -1 THEN arr ELSE JArr(Append(arr.a, user))

\* The array update hands to setItem: the stored one with the matching
\* record replaced, or the stored one itself when no record matches.
Replaced(arr, user) ==
  LET index == FindIndex(arr.a, user.n)
  IN IF index = -1 THEN arr ELSE JArr(Splice(arr.a, index, user))

\* update without its final catchAll: a storage failure is the result.
LsUpdateNoCatch(st, user, quota) ==
  LET got == GetItem(st, UsersKey)
      us == OrEmpty(got.val)
      set == SetItem(st, UsersKey, Replaced(us, user), quota)
  IN IF got.status = "fail"
     THEN [store |-> st, res |-> Fail,
           getFailed |-> TRUE, setFailed |-> FALSE]
     ELSE IF us.t # "arr"
     THEN [store |-> st, res |-> Die,
           getFailed |-> FALSE, setFailed |-> FALSE]
     ELSE [store |-> set.store, res |-> set.res,
           getFailed |-> FALSE, setFailed |-> set.res.status = "fail"]

\* update: getItem, map(users || []), map(replace), flatMap(setItem),
\* catchAll(() => succeed(void 0)).  A failed getItem skips to the catchAll;
\* users.findIndex on a value without findIndex throws, which is a defect.
LsUpdate(st, user, quota) ==
  LET got == GetItem(st, UsersKey)
      us == OrEmpty(got.val)
      set == SetItem(st, UsersKey, Replaced(us, user), quota)
  IN IF got.status = "fail"
     THEN [store |-> st, res |-> Ok(Undefined),
           getFailed |-> TRUE, setFailed |-> FALSE]
     ELSE IF us.t # "arr"
     THEN [store |-> st, res |-> Die,
           getFailed |-> FALSE, setFailed |-> FALSE]
     ELSE [store |-> set.store, res |-> Ok(Undefined),
           getFailed |-> FALSE, setFailed |-> set.res.status = "fail"]

MemFindById(us, id) == Ok(Find(us.a, id))

MemFindAll(us) == OkRef(us)

\* Effect.succeed((users[users.findIndex(...)] = user)): the assignment is
\* made when update is called, and its value, user, is the result.
MemUpdate(us, user) ==
  [users |-> ArrayAssign(us, FindIndex(us.a, user.n), user), res |-> Ok(user)]

(***************************************************************************)
(* State.                                                                  *)
(*   repo   the UserRepository implementation provided to the run          *)
(*   store  localStorage                                                   *)
(*   users  the module-level users array of the later example              *)
(*   last   the last call: its arguments, its result, the state before it  *)
(*   hist   what the calls so far lead one to expect                       *)
(*   held   the result of the latest findAll, still held by the caller     *)
(***************************************************************************)
Repos == {"userRepositoryLive", "userInmemoryRepositoryLive",
          "userLocalStorageRepositoryLive", "inMemoryUserRepository",
          "userLocalStorageRepository"}

\* What localStorage may hold under "users" when a run starts: nothing, the
\* empty string, text that is no JSON, arrays of users with distinct ids,
\* and JSON that is no array.
InitItems ==
  { Unset,
    Holds(<<>>),
    Holds(<<P("[")>>),
    Holds(Stringify(JArr(<<>>))),
    Holds(Stringify(Seed)),
    Holds(Stringify(JArr(<<User(2, "User 2"), User(MaxId, "Changed"),
                           User(1, "User 1")>>))),
    Holds(Stringify(JNull)),
    Holds(Stringify(JNum(5))),
    Holds(Stringify(JObj)) }

NoSeen == [has |-> FALSE, val |-> Undefined]

Seen(v) == [has |-> TRUE, val |-> v]

NoCall ==
  [op |-> "none", id |-> 0, user |-> Undefined, quota |-> FALSE,
   key |-> "", strict |-> FALSE,
   res |-> Ok(Undefined), res2 |-> Ok(Undefined),
   getFailed |-> FALSE, setFailed |-> FALSE,
   preStore |-> [k \in Keys |-> Unset], preUsers |-> Seed, seen |-> NoSeen]

NoHeld == [has |-> FALSE, mem |-> Ok(Undefined), ls |-> Ok(Undefined)]

UsesStore(r) ==
  r \in {"userLocalStorageRepositoryLive", "userLocalStorageRepository"}

\* The records a repository holds when the run starts: what its findAll
\* returns then.
InitialAll(r, st) ==
  CASE r = "userLocalStorageRepository" -> LsFindAll(st).res.val
    [] r = "userLocalStorageRepositoryLive" -> LiveLsFindAll(st).res.val
    [] OTHER -> Seed

InitHist(r, st) ==
  [updated |-> FALSE,
   latest |-> [i \in Ids |-> Find(InitialAll(r, st).a, i)],
   effective |-> [i \in Ids |-> Find(InitialAll(r, st).a, i)],
   seen |-> NoSeen,
   absent |-> "none",
   written |-> [k \in Keys |-> NoSeen]]

Init ==
  /\ repo \in Repos
  /\ \E item \in InitItems :
       /\ UsesStore(repo) \/ item = Unset
       /\ store = [k \in Keys |-> IF k = UsersKey THEN item ELSE Unset]
  /\ users = Seed
  /\ last = NoCall
  /\ hist = InitHist(repo, store)
  /\ held = NoHeld

\* The call just made, with the state it was made in.
Call(op, id, user, quota) ==
  [NoCall EXCEPT !.op = op, !.id = id, !.user = user, !.quota = quota,
                 !.preStore = store, !.preUsers = users, !.seen = hist.seen]

\* What findById(id) gave for an id the repository does not hold.
Outcome(res) ==
  IF res.status = "ok" /\ res.val = Undefined THEN "absent" ELSE res.status

\* hist after findById(id) returned res; all is what findAll returns.
NoteFind(all, id, res) ==
  IF all.t = "arr" /\ Find(all.a, id) = Undefined /\ hist.absent = "none"
  THEN [hist EXCEPT !.absent = Outcome(res)]
  ELSE hist

\* hist.latest and hist.effective follow the ids the repository held when
\* the run started: old is the entry, user the argument of an update.
Noted(old, user) == IF old = Undefined THEN old ELSE user

\* ---- Program.ts ----
userRepositoryLive_findById(id) ==
  /\ repo = "userRepositoryLive"
  /\ last' = [Call("findById", id, Undefined, FALSE)
                EXCEPT !.res = RepoLiveFindById(id)]
  /\ hist' = NoteFind(RepoLiveFindAll.val, id, RepoLiveFindById(id))
  /\ UNCHANGED <<repo, store, users, held>>

userRepositoryLive_findAll ==
  /\ repo = "userRepositoryLive"
  /\ last' = [Call("findAll", 0, Undefined, FALSE) EXCEPT !.res = RepoLiveFindAll]
  /\ hist' = [hist EXCEPT !.seen = Seen(RepoLiveFindAll.val)]
  /\ UNCHANGED <<repo, store, users, held>>

\* ---- the earlier example ----
userInmemoryRepositoryLive_findById(id) ==
  /\ repo = "userInmemoryRepositoryLive"
  /\ last' = [Call("findById", id, Undefined, FALSE)
                EXCEPT !.res = LiveMemFindById(id)]
  /\ hist' = NoteFind(LiveMemFindAll.val, id, LiveMemFindById(id))
  /\ UNCHANGED <<repo, store, users, held>>

userInmemoryRepositoryLive_findAll ==
  /\ repo = "userInmemoryRepositoryLive"
  /\ last' = [Call("findAll", 0, Undefined, FALSE) EXCEPT !.res = LiveMemFindAll]
  /\ hist' = [hist EXCEPT !.seen = Seen(LiveMemFindAll.val)]
  /\ UNCHANGED <<repo, store, users, held>>

userLocalStorageRepositoryLive_findById(id) ==
  /\ repo = "userLocalStorageRepositoryLive"
  /\ LET r == LiveLsFindById(store, id)
     IN /\ last' = [Call("findById", id, Undefined, FALSE)
                     EXCEPT !.res = r.res, !.getFailed = r.getFailed]
        /\ hist' = NoteFind(LiveLsFindAll(store).res.val, id, r.res)
  /\ UNCHANGED <<repo, store, users, held>>

userLocalStorageRepositoryLive_findAll ==
  /\ repo = "userLocalStorageRepositoryLive"
  /\ LET r == LiveLsFindAll(store)
     IN /\ last' = [Call("findAll", 0, Undefined, FALSE)
                     EXCEPT !.res = r.res, !.getFailed = r.getFailed]
        /\ hist' = [hist EXCEPT !.seen = Seen(r.res.val)]
  /\ UNCHANGED <<repo, store, users, held>>

\* ---- the later example ----
inMemoryUserRepository_findById(id) ==
  /\ repo = "inMemoryUserRepository"
  /\ last' = [Call("findById", id, Undefined, FALSE)
                EXCEPT !.res = MemFindById(users, id)]
  /\ hist' = NoteFind(MemFindAll(users).val, id, MemFindById(users, id))
  /\ UNCHANGED <<repo, store, users, held>>

inMemoryUserRepository_findAll ==
  /\ repo = "inMemoryUserRepository"
  /\ last' = [Call("findAll", 0, Undefined, FALSE)
                EXCEPT !.res = MemFindAll(users)]
  /\ hist' = [hist EXCEPT !.seen = Seen(MemFindAll(users).val)]
  /\ UNCHANGED <<repo, store, users, held>>

inMemoryUserRepository_update(user) ==
  /\ repo = "inMemoryUserRepository"
  /\ LET r == MemUpdate(users, user)
     IN /\ users' = r.users
        /\ last' = [Call("update", user.n, user, FALSE) EXCEPT !.res = r.res]
  /\ hist' = [hist EXCEPT !.updated = TRUE, !.seen = NoSeen,
                          !.latest[user.n] = Noted(@, user),
                          !.effective[user.n] = Noted(@, user)]
  /\ UNCHANGED <<repo, store, held>>

userLocalStorageRepository_findById(id) ==
  /\ repo = "userLocalStorageRepository"
  /\ LET r == LsFindById(store, id)
     IN /\ last' = [Call("findById", id, Undefined, FALSE)
                     EXCEPT !.res = r.res, !.getFailed = r.getFailed]
        /\ hist' = NoteFind(LsFindAll(store).res.val, id, r.res)
  /\ UNCHANGED <<repo, store, users, held>>

userLocalStorageRepository_findAll ==
  /\ repo = "userLocalStorageRepository"
  /\ LET r == LsFindAll(store)
     IN /\ last' = [Call("findAll", 0, Undefined, FALSE)
                     EXCEPT !.res = r.res, !.getFailed = r.getFailed]
        /\ hist' = [hist EXCEPT !.seen = Seen(r.res.val)]
  /\ UNCHANGED <<repo, store, users, held>>

\* quota: whether localStorage.setItem, if update reaches it, throws.
userLocalStorageRepository_update(user, quota) ==
  /\ repo = "userLocalStorageRepository"
  /\ LET r == LsUpdate(store, user, quota)
     IN /\ store' = r.store
        /\ last' = [Call("update", user.n, user, quota)
                     EXCEPT !.res = r.res, !.getFailed = r.getFailed,
                            !.setFailed = r.setFailed]
  /\ hist' = [hist EXCEPT !.updated = TRUE, !.seen = NoSeen,
                          !.latest[user.n] = Noted(@, user),
                          !.effective[user.n] =
                             IF quota THEN @ ELSE Noted(@, user)]
  /\ UNCHANGED <<repo, users, held>>

\* main: findById(1), findById(2), findAll(), then the three prints.  The
\* first of the three that does not succeed ends the run with its outcome.
MainOutcome(r1, r2, r3) ==
  IF r1.status # "ok" THEN r1
  ELSE IF r2.status # "ok" THEN r2
  ELSE IF r3.status # "ok" THEN r3
  ELSE Ok(Undefined)

\* main of the earlier example, always over userLocalStorageRepositoryLive.
mainLive ==
  /\ repo = "userLocalStorageRepositoryLive"
  /\ last' = [Call("main", 0, Undefined, FALSE)
                EXCEPT !.res = MainOutcome(LiveLsFindById(store, 1).res,
                                           LiveLsFindById(store, 2).res,
                                           LiveLsFindAll(store).res)]
  /\ UNCHANGED <<repo, store, users, hist, held>>

\* main of the later example, over the repository selectUserRepositoryLayer
\* picked.
main ==
  /\ repo \in {"inMemoryUserRepository", "userLocalStorageRepository"}
  /\ last' = [Call("main", 0, Undefined, FALSE)
                EXCEPT !.res =
                  IF repo = "inMemoryUserRepository"
                  THEN MainOutcome(MemFindById(users, 1), MemFindById(users, 2),
                                   MemFindAll(users))
                  ELSE MainOutcome(LsFindById(store, 1).res,
                                   LsFindById(store, 2).res,
                                   LsFindAll(store).res)]
  /\ UNCHANGED <<repo, store, users, hist, held>>

UpdateUsers == {User(i, n) : i \in Ids, n \in UpdateNames}

Next ==
  \/ \E id \in Ids : userRepositoryLive_findById(id)
  \/ userRepositoryLive_findAll
  \/ \E id \in Ids : userInmemoryRepositoryLive_findById(id)
  \/ userInmemoryRepositoryLive_findAll
  \/ \E id \in Ids : userLocalStorageRepositoryLive_findById(id)
  \/ userLocalStorageRepositoryLive_findAll
  \/ mainLive
  \/ \E id \in Ids : inMemoryUserRepository_findById(id)
  \/ inMemoryUserRepository_findAll
  \/ \E u \in UpdateUsers : inMemoryUserRepository_update(u)
  \/ \E id \in Ids : userLocalStorageRepository_findById(id)
  \/ userLocalStorageRepository_findAll
  \/ \E u \in UpdateUsers, q \in BOOLEAN : userLocalStorageRepository_update(u, q)
  \/ main

Spec == Init /\ [][Next]_vars

(***************************************************************************)
(* Properties of the repositories, checked under Spec.                     *)
(***************************************************************************)
HasUpdate == {"inMemoryUserRepository", "userLocalStorageRepository"}

\* What findAll returns in the state (us, st): the repository's collection.
AllOf(us, st) ==
  CASE repo = "userRepositoryLive" -> RepoLiveFindAll.val
    [] repo = "userInmemoryRepositoryLive" -> LiveMemFindAll.val
    [] repo = "userLocalStorageRepositoryLive" -> LiveLsFindAll(st).res.val
    [] repo = "inMemoryUserRepository" -> MemFindAll(us).val
    [] repo = "userLocalStorageRepository" -> LsFindAll(st).res.val

Before == AllOf(last.preUsers, last.preStore)

After == AllOf(users, store)

Holding(all, id) == all.t = "arr" /\ \E i \in 1..Len(all.a) : all.a[i].n = id

NotHolding(all, id) == all.t = "arr" /\ \A i \in 1..Len(all.a) : all.a[i].n # id

DistinctIds(a) == \A i, j \in 1..Len(a) : a[i].n = a[j].n => i = j

\* After is Before with the record of last.user's id replaced by last.user.
ReplacedInPlace ==
  /\ After.t = "arr"
  /\ Len(After.a) = Len(Before.a)
  /\ \A i \in 1..Len(Before.a) :
       After.a[i] = IF Before.a[i].n = last.id THEN last.user ELSE Before.a[i]

UpdateOfPresent ==
  /\ last.op = "update"
  /\ repo \in HasUpdate
  /\ Holding(Before, last.id)
  /\ DistinctIds(Before.a)

\* C1 as stated: update(u) for an id the collection holds (unique ids, either
\* repository with update) keeps the length, puts u at the position of the
\* record with u.id and leaves every other position as it was.
C1_UpdateReplaces == UpdateOfPresent => ReplacedInPlace

\* C1 amended: the same, unless localStorage.setItem failed inside the
\* persisted update; then the collection is what it was before the call.
C1_UpdateReplacesIfWritten ==
  UpdateOfPresent =>
    IF last.setFailed THEN After = Before ELSE ReplacedInPlace

\* An update of the persisted repository that replaced the middle record of
\* three by a different one.
C1_Witness ==
  /\ UpdateOfPresent
  /\ repo = "userLocalStorageRepository"
  /\ ~last.setFailed
  /\ Len(Before.a) = 3
  /\ Before.a[2].n = last.id
  /\ Before.a[2] # last.user
  /\ After.a[2] = last.user

\* C2: update(u) for an id the collection does not hold leaves the
\* collection unchanged: same length, same records, and findAll and findById
\* return afterwards what they returned before.
C2_UpdateAbsentNoOp ==
  (last.op = "update" /\ repo \in HasUpdate /\ NotHolding(Before, last.id)) =>
    /\ After.t = "arr"
    /\ Len(After.a) = Len(Before.a)
    /\ After.a = Before.a
    /\ After = Before
    /\ \A i \in Ids : Find(After.a, i) = Find(Before.a, i)

FindOfPresent ==
  /\ last.op = "findById"
  /\ repo \in HasUpdate
  /\ Holding(Before, last.id)

\* C3 as stated: findById(id) for an id the collection holds returns a user
\* with that id, the one passed to the most recent update for that id, or
\* the initial record when that id was never updated.
C3_FindByIdLatest ==
  FindOfPresent =>
    /\ last.res.status = "ok"
    /\ last.res.val.n = last.id
    /\ last.res.val = hist.latest[last.id]

\* C3 amended: the user is the one passed to the most recent update for that
\* id whose write localStorage accepted (any update, in memory), or the
\* initial record when there was none.
C3_FindByIdEffective ==
  FindOfPresent =>
    /\ last.res.status = "ok"
    /\ last.res.val.t = "user"
    /\ last.res.val.n = last.id
    /\ last.res.val = hist.effective[last.id]

\* findById(1) on the persisted repository gives {1, "Changed"} after an
\* update.
C3_Witness ==
  /\ FindOfPresent
  /\ repo = "userLocalStorageRepository"
  /\ hist.updated
  /\ last.res.val = User(1, "Changed")

\* C4: findById(id) for an id the collection does not hold gives absent or
\* a failure, the same one every time for one implementation, never a user.
C4_AbsentIdGivesNoUser ==
  (last.op = "findById" /\ NotHolding(Before, last.id)) =>
    /\ Outcome(last.res) \in {"absent", "fail"}
    /\ Outcome(last.res) = hist.absent

StoresArray(item) ==
  /\ ~NoItem(item)
  /\ Parse(item.text).ok
  /\ Parse(item.text).v.t = "arr"

\* C5: findAll returns exactly the collection, in order: the seed for an
\* in-memory repository nothing has updated, the array stored under "users"
\* for a persisted one; findById and findAll change nothing, and a repeated
\* findAll with no update in between returns what the one before returned.
C5_FindAllExact ==
  /\ (last.op = "findAll" /\ ~UsesStore(repo) /\ ~hist.updated) =>
       last.res.status = "ok" /\ last.res.val = Seed
  /\ (last.op = "findAll" /\ UsesStore(repo) /\ StoresArray(store[UsersKey])) =>
       /\ last.res.status = "ok"
       /\ last.res.val.t = "arr"
       /\ last.res.val.x = <<>>
       /\ Stringify(last.res.val) = store[UsersKey].text
  /\ last.op \in {"findById", "findAll"} =>
       store = last.preStore /\ users = last.preUsers
  /\ (last.op = "findAll" /\ last.seen.has) => last.res.val = last.seen.val

\* A second findAll in a row on a persisted collection of three records.
C5_Witness ==
  /\ last.op = "findAll"
  /\ repo = "userLocalStorageRepository"
  /\ last.seen.has
  /\ hist.updated
  /\ Len(last.res.val.a) = 3

\* getItem("users") fails in the store st: the text is no JSON, or (strict
\* getItem) there is no text.
ReadFails(st) ==
  \/ ~NoItem(st[UsersKey]) /\ ~Parse(st[UsersKey].text).ok
  \/ repo = "userLocalStorageRepositoryLive" /\ NoItem(st[UsersKey])

\* C7: no storage failure escapes the persisted repository: when getItem
\* fails findById gives absent and findAll the empty array; when getItem or
\* setItem fails inside update, update succeeds and the store is unchanged.
C7_FailuresSwallowed ==
  UsesStore(repo) =>
    /\ last.op \in {"findById", "findAll", "update"} =>
         (last.getFailed <=> ReadFails(last.preStore))
    /\ (last.op = "findById" /\ ReadFails(last.preStore)) =>
         last.res = Ok(Undefined)
    /\ (last.op = "findAll" /\ ReadFails(last.preStore)) =>
         last.res = Ok(JArr(<<>>))
    /\ (last.op = "update" /\ (last.getFailed \/ last.setFailed)) =>
         last.res = Ok(Undefined) /\ store = last.preStore
    /\ (last.op = "update" /\ last.quota /\ Before.t = "arr"
          /\ ~last.getFailed) => last.setFailed

\* An update that would have replaced a record, had setItem not failed.
C7_Witness ==
  /\ last.op = "update"
  /\ repo = "userLocalStorageRepository"
  /\ last.setFailed
  /\ Holding(Before, last.id)
  /\ Find(Before.a, last.id) # last.user
  /\ store = last.preStore

\* C8: the demo workflow never fails, whatever localStorage holds under
\* "users" and whichever repository is selected.
C8_MainNeverFails == last.op = "main" => last.res.status = "ok"

\* C9: the collection stays a sequence of users with pairwise distinct ids,
\* in memory (the array's stray property included) and in the store.
C9_IdsStayDistinct ==
  /\ users.t = "arr"
  /\ \A i \in 1..Len(users.a) : users.a[i].t = "user"
  /\ DistinctIds(users.a \o users.x)
  /\ StoresArray(store[UsersKey]) =>
       /\ \A i \in 1..Len(After.a) : After.a[i].t = "user"
       /\ DistinctIds(Parse(store[UsersKey].text).v.a)

\* The in-memory array after an update for an id it holds and an update
\* for an id it does not hold.
C9_Witness ==
  /\ repo = "inMemoryUserRepository"
  /\ last.op = "update"
  /\ users.a # Seed.a
  /\ users.x # <<>>

(***************************************************************************)
(* The key-value store service on its own: SpecKV.  hist.written[k] is the *)
(* value of the latest successful setItem(k, _) that no removeItem(k) has  *)
(* followed.                                                               *)
(***************************************************************************)
\* Serializable values setItem is called with.
KvValues ==
  { JNull, JFalse, JTrue, JNum(0), JNum(MaxId), JStr(""), JStr("a"), JObj,
    User(1, "User 1"), JArr(<<>>), Seed }

InitKV ==
  /\ repo = "localStorageServiceLive"
  /\ store \in [Keys -> {Unset, Holds(<<>>), Holds(<<P("[")>>)}]
  /\ users = Seed
  /\ last = NoCall
  /\ hist = InitHist(repo, store)
  /\ held = NoHeld

\* getItem of the earlier example's service.
localStorageServiceLive_getItem_strict(key) ==
  /\ last' = [NoCall EXCEPT !.op = "getItem", !.key = key, !.strict = TRUE,
                            !.preStore = store,
                            !.res = GetItemStrict(store, key)]
  /\ UNCHANGED <<repo, store, users, hist, held>>

\* getItem of the later example's service.
localStorageServiceLive_getItem(key) ==
  /\ last' = [NoCall EXCEPT !.op = "getItem", !.key = key,
                            !.preStore = store, !.res = GetItem(store, key)]
  /\ UNCHANGED <<repo, store, users, hist, held>>

localStorageServiceLive_setItem(key, value, quota) ==
  /\ LET r == SetItem(store, key, value, quota)
     IN /\ store' = r.store
        /\ last' = [NoCall EXCEPT !.op = "setItem", !.key = key,
                                  !.user = value, !.quota = quota,
                                  !.preStore = store, !.res = r.res,
                                  !.setFailed = r.res.status = "fail"]
        /\ hist' = [hist EXCEPT !.written[key] =
                                   IF quota THEN @ ELSE Seen(value)]
  /\ UNCHANGED <<repo, users, held>>

localStorageServiceLive_removeItem(key) ==
  /\ LET r == RemoveItem(store, key)
     IN /\ store' = r.store
        /\ last' = [NoCall EXCEPT !.op = "removeItem", !.key = key,
                                  !.preStore = store, !.res = r.res]
        /\ hist' = [hist EXCEPT !.written[key] = NoSeen]
  /\ UNCHANGED <<repo, users, held>>

NextKV ==
  \/ \E k \in Keys : localStorageServiceLive_getItem_strict(k)
  \/ \E k \in Keys : localStorageServiceLive_getItem(k)
  \/ \E k \in Keys, v \in KvValues, q \in BOOLEAN :
       localStorageServiceLive_setItem(k, v, q)
  \/ \E k \in Keys : localStorageServiceLive_removeItem(k)

SpecKV == InitKV /\ [][NextKV]_vars

\* C6: getItem(k) after a successful setItem(k, v), with no other write to k
\* in between, succeeds with a value equal to v: neither absent nor an error.
C6_RoundTrip ==
  (last.op = "getItem" /\ hist.written[last.key].has) =>
    /\ last.res.status = "ok"
    /\ last.res.val # Undefined
    /\ last.res.val = hist.written[last.key].val

\* The strict getItem reading back the empty array, while the other key
\* holds the written empty string.
C6_Witness ==
  /\ last.op = "getItem"
  /\ last.strict
  /\ hist.written[last.key] = Seen(JArr(<<>>))
  /\ hist.written["other"] = Seen(JStr(""))
  /\ last.res = Ok(JArr(<<>>))

(***************************************************************************)
(* The two repositories of the later example side by side: SpecPair.  The  *)
(* store starts with the in-memory array's records under "users", no       *)
(* setItem fails, and every call is made on both.  last.res is the         *)
(* in-memory result, last.res2 the persisted one; held keeps both results  *)
(* of the latest findAll.                                                  *)
(***************************************************************************)
InitPair ==
  /\ repo = "both"
  /\ store = [k \in Keys |-> IF k = UsersKey THEN Holds(Stringify(Seed))
                             ELSE Unset]
  /\ users = Seed
  /\ last = NoCall
  /\ hist = InitHist(repo, store)
  /\ held = NoHeld

both_findById(id) ==
  /\ last' = [Call("findById", id, Undefined, FALSE)
                EXCEPT !.res = MemFindById(users, id),
                       !.res2 = LsFindById(store, id).res]
  /\ UNCHANGED <<repo, store, users, hist, held>>

both_findAll ==
  /\ LET m == MemFindAll(users)
         l == LsFindAll(store).res
     IN /\ last' = [Call("findAll", 0, Undefined, FALSE)
                      EXCEPT !.res = m, !.res2 = l]
        /\ held' = [has |-> TRUE, mem |-> m, ls |-> l]
  /\ UNCHANGED <<repo, store, users, hist>>

both_update(user) ==
  /\ LET m == MemUpdate(users, user)
         l == LsUpdate(store, user, FALSE)
     IN /\ users' = m.users
        /\ store' = l.store
        /\ last' = [Call("update", user.n, user, FALSE)
                      EXCEPT !.res = m.res, !.res2 = l.res]
  /\ hist' = [hist EXCEPT !.updated = TRUE]
  /\ UNCHANGED <<repo, held>>

NextPair ==
  \/ \E id \in Ids : both_findById(id)
  \/ both_findAll
  \/ \E u \in UpdateUsers : both_update(u)

SpecPair == InitPair /\ [][NextPair]_vars

\* What the caller holding the result r sees now: an array handed out by
\* reference is the module-level array as it is now.
Seeing(r) == IF r.ref THEN users ELSE r.val

\* C10: the two repositories are observationally equivalent: each call gives
\* equal results on both (update, of type void, is compared by outcome), the
\* two collections are equal after every call, and the results of an earlier
\* findAll stay equal too.
C10_Equivalent ==
  /\ last.op \in {"findById", "findAll"} =>
       /\ last.res.status = last.res2.status
       /\ Seeing(last.res) = Seeing(last.res2)
  /\ last.op = "update" => last.res.status = last.res2.status
  /\ MemFindAll(users).val = LsFindAll(store).res.val
  /\ held.has => Seeing(held.mem) = Seeing(held.ls)

\* The part of C10 about results already returned, on its own.
C10_HeldResultsAgree ==
  (held.has /\ users.x = <<>>) => Seeing(held.mem) = Seeing(held.ls)

====
